---------------------------- MODULE Spec2Model ----------------------------
(***************************************************************************)
(* Model of backend/src/services/openai_service.py: the answer generator   *)
(* OpenRouterService (context assembly, prompt construction, upstream      *)
(* invocation, fallback) and the lazily created singleton get_service.     *)
(*                                                                         *)
(* A Python string is modelled as a sequence of tokens; a token is a       *)
(* non-empty piece of text (a literal of the source, a field value, or a   *)
(* single whitespace character).  The empty string is the empty sequence,  *)
(* so Python's truthiness test `if s:` is s # <<>>.                        *)
(***************************************************************************)
EXTENDS Integers, Sequences, FiniteSets, TLC

VARIABLES
    \* ---- one generate_answer request ----
    question,          \* argument `question`
    retrieved_chunks,  \* argument `retrieved_chunks` (None is passed as [])
    mode,              \* argument `mode`
    policy,            \* grounding policy of the provider serving the request
    pc,                \* phase of the request
    context_text,      \* local `context_text`
    user_message,      \* local `user_message`
    sent,              \* what Runner.run was given: <<>> or <<[system, input]>>
    invocations,       \* number of Runner.run calls made by this request
    final_output,      \* text of the upstream reply (when it replied)
    exc,               \* exception caught by the try block ("None" if none)
    outcome,           \* "pending" | "returned" | "raised"
    result,            \* the string returned to the caller
    raised,            \* the exception surfaced to the caller ("None" if none)
    \* ---- the module-level singleton and the threads calling get_service ----
    _service_instance, \* global `_service_instance`: <<>> (None) or <<instance>>
    constructed,       \* every OpenRouterService built so far, in order
    tpc,               \* per thread: position inside get_service
    targ,              \* per thread: the api_key argument of the current call
    tnew,              \* per thread: the instance it built, not yet assigned
    tret,              \* per thread: what its last call returned
    tcalls,            \* per thread: calls completed
    \* ---- concurrent generate_answer requests on the shared instance ----
    requests           \* per request: its arguments, locals and outcome

reqvars == <<question, retrieved_chunks, mode, policy, pc, context_text,
             user_message, sent, invocations, final_output, exc, outcome,
             result, raised>>
svcvars == <<_service_instance, constructed, tpc, targ, tnew, tret, tcalls>>
concvars == <<requests>>
vars == <<reqvars, svcvars, concvars>>

(***************************************************************************)
(* Bounds of the model.                                                    *)
(***************************************************************************)
MaxChunks == 2      \* longest fragment list
MaxOut == 3         \* longest upstream reply, in tokens
NumThreads == 2     \* threads calling get_service
MaxCalls == 2       \* get_service calls per thread
NumRequests == 2    \* generate_answer requests in flight together

(***************************************************************************)
(* Strings.                                                                *)
(***************************************************************************)
Digit == <<"0", "1", "2", "3", "4", "5", "6", "7", "8", "9">>

\* str(n) for a non-negative integer, as the f-string formats it.
RECURSIVE IntToStr(_)
IntToStr(n) ==
    IF n < 10 THEN Digit[n + 1]
    ELSE IntToStr(n \div 10) \o Digit[(n % 10) + 1]

\* A text value as a string: the empty text contributes no token.
Str(v) == IF v = "" THEN <<>> ELSE <<v>>

Whitespace == {" ", "\n", "\t"}

\* str.strip(): drop leading and trailing whitespace, keep the rest.
RECURSIVE LStrip(_)
LStrip(s) ==
    IF s # <<>> /\ Head(s) \in Whitespace THEN LStrip(Tail(s)) ELSE s

RECURSIVE RStrip(_)
RStrip(s) ==
    IF s # <<>> /\ s[Len(s)] \in Whitespace
    THEN RStrip(SubSeq(s, 1, Len(s) - 1))
    ELSE s

Strip(s) == RStrip(LStrip(s))

\* sep.join(parts) for a list of strings.
RECURSIVE Join(_, _)
Join(parts, sep) ==
    IF parts = <<>> THEN <<>>
    ELSE IF Len(parts) = 1 THEN parts[1]
    ELSE parts[1] \o sep \o Join(Tail(parts), sep)

Range(s) == {s[i] : i \in 1..Len(s)}

(***************************************************************************)
(* Inputs: questions, fragments, modes.                                    *)
(***************************************************************************)
Questions == {<<>>, <<"What is Physical AI?">>}

Modes == {"book-wide", "selected-text-only", "chapter-aware"}

ChapterIds == {3, 5}
SectionTitles == {"ROS 2 Architecture"}
FullTexts == {"ROS 2 is built on DDS..."}

\* A dict that has `key` or lacks it.
Field(key, values) == {<<>>} \cup {key :> v : v \in values}

\* The chunk dicts: any of the three keys may be missing.
ChunkDicts ==
    {a @@ b @@ c : a \in Field("chapter_id", ChapterIds),
                   b \in Field("section_title", SectionTitles),
                   c \in Field("full_text", FullTexts)}

ChunkLists == UNION {[1..n -> ChunkDicts] : n \in 0..MaxChunks}

(***************************************************************************)
(* OpenRouterService._build_context                                        *)
(***************************************************************************)
\* dict.get(key, default)
DictGet(d, key, default) == IF key \in DOMAIN d THEN d[key] ELSE default

\* Mutant: a missing section title is rendered as the empty text.
section_title_of_NoDefault(chunk) == DictGet(chunk, "section_title", "")

section_title_of(chunk) == DictGet(chunk, "section_title", "Unknown Section")

chapter_id_of(chunk) ==
    IF "chapter_id" \in DOMAIN chunk THEN IntToStr(chunk["chapter_id"]) ELSE "?"

full_text_of(chunk) == DictGet(chunk, "full_text", "")

SEPARATOR == <<"\n---\n">>

\* f"[Chunk {i}] Chapter {chapter_id}, Section: {section_title}\n{full_text}\n"
ContextPart(i, chunk) ==
    <<"[Chunk ", IntToStr(i), "] Chapter ", chapter_id_of(chunk),
      ", Section: ">> \o Str(section_title_of(chunk)) \o <<"\n">>
      \o Str(full_text_of(chunk)) \o <<"\n">>

\* Mutant: the blocks are numbered by enumerate(chunks) without start=1.
ContextParts_ZeroBased(chunks) ==
    [i \in 1..Len(chunks) |-> ContextPart(i - 1, chunks[i])]

ContextParts(chunks) == [i \in 1..Len(chunks) |-> ContextPart(i, chunks[i])]

_build_context(chunks) ==
    IF chunks = <<>> THEN <<>>
    ELSE Join(ContextParts(chunks), SEPARATOR)

(***************************************************************************)
(* OpenRouterService._create_agent and the user message                    *)
(***************************************************************************)
AgentInstructions ==
    <<"You are an educational AI assistant for the \"Physical AI & Humanoid Robotics\" textbook.",
      "\n\nYour role is to help learners understand textbook content by answering questions accurately and clearly.",
      "\n\nCRITICAL RULES:\n1. Answer primarily from the provided textbook context when available\n2. If context is limited or empty, you may use your general knowledge to help the learner\n3. Always be helpful - if you don't know something, explain what you DO know related to the topic\n4. Use clear, educational language appropriate for learners\n5. Structure answers with bullet points or numbered lists when appropriate\n6. Keep answers concise but thorough enough to be educational\n7. Maintain a helpful, patient, encouraging tone",
      "\n\nWhen context is provided:\n- Use it as the primary source for your answer\n- Cite the relevant chapter/section in your response",
      "\n\nWhen no context is provided:\n- Answer based on your knowledge of Physical AI, robotics, ROS 2, simulation, and VLA systems\n- Still be helpful and educational",
      "\n\nRemember: Your goal is to help learners succeed. Always provide a useful, accurate response.">>

_create_agent == [name |-> "RAG Chatbot", instructions |-> AgentInstructions]

QUESTION_LABEL == "Question: "
CONTEXT_HEADER == "\n\nContext from textbook:\n"
INSTRUCTIONS_WITH_CONTEXT ==
    "\n\nInstructions:\n- Answer the question using the provided context as your primary source\n- Cite the relevant chapter/section in your answer\n- Use clear, educational language\n- Structure your answer with bullet points or numbered lists if appropriate\n- Keep answer concise but thorough\n- If the context doesn't fully answer the question, supplement with your knowledge"
INSTRUCTIONS_NO_CONTEXT ==
    "\n\nInstructions:\n- Answer based on your knowledge of Physical AI, robotics, ROS 2, simulation, and VLA systems\n- Use clear, educational language\n- Structure your answer appropriately\n- Be helpful and thorough"

\* Mutant: chapter-aware mode appends a chapter instruction without looking
\* at the fragment list.
build_user_message_ChapterAware(q, ctx, m) ==
    (IF ctx # <<>>
     THEN <<QUESTION_LABEL>> \o q \o <<CONTEXT_HEADER>> \o ctx
            \o <<INSTRUCTIONS_WITH_CONTEXT>>
     ELSE <<QUESTION_LABEL>> \o q \o <<INSTRUCTIONS_NO_CONTEXT>>)
    \o (IF m = "chapter-aware"
        THEN <<"\n- Prioritize content from the current chapter">>
        ELSE <<>>)

\* Mutant: an empty question short-circuits to an empty message.
build_user_message_EmptyQuestion(q, ctx, m) ==
    IF q = <<>> THEN <<>>
    ELSE IF ctx # <<>>
    THEN <<QUESTION_LABEL>> \o q \o <<CONTEXT_HEADER>> \o ctx
           \o <<INSTRUCTIONS_WITH_CONTEXT>>
    ELSE <<QUESTION_LABEL>> \o q \o <<INSTRUCTIONS_NO_CONTEXT>>

\* The user message of generate_answer; `m` is the mode argument, which the
\* code logs and does not otherwise read.
build_user_message(q, ctx, m) ==
    IF ctx # <<>>
    THEN <<QUESTION_LABEL>> \o q \o <<CONTEXT_HEADER>> \o ctx
           \o <<INSTRUCTIONS_WITH_CONTEXT>>
    ELSE <<QUESTION_LABEL>> \o q \o <<INSTRUCTIONS_NO_CONTEXT>>

(***************************************************************************)
(* OpenRouterService._get_fallback_response                                *)
(***************************************************************************)
FALLBACK_CONTEXT_HEAD ==
    "Based on the textbook content you provided, I can see this relates to your question about \""
FALLBACK_CONTEXT_TAIL ==
    "\".\n\nThe context discusses important concepts in Physical AI and robotics. For more detailed information, I recommend referring to the specific sections in the textbook that cover this topic.\n\nPlease try your question again - I'm here to help you learn!"
FALLBACK_MENU_HEAD ==
    "I'd be happy to help answer your question about \""
FALLBACK_MENU_TAIL ==
    "\".\n\nAs an educational assistant for Physical AI & Humanoid Robotics, I can help you understand topics like:\n- Physical AI and embodied intelligence\n- Humanoid robot design and components\n- ROS 2 architecture and tools\n- Digital twin simulation\n- Vision-Language-Action (VLA) systems\n\nPlease try again, and I'll do my best to provide a helpful answer!"

\* Mutant: the branch is taken on the question instead of the context.
_get_fallback_response_ByQuestion(q, ctx) ==
    IF q # <<>>
    THEN <<FALLBACK_CONTEXT_HEAD>> \o q \o <<FALLBACK_CONTEXT_TAIL>>
    ELSE <<FALLBACK_MENU_HEAD>> \o q \o <<FALLBACK_MENU_TAIL>>

_get_fallback_response(q, ctx) ==
    IF ctx # <<>>
    THEN <<FALLBACK_CONTEXT_HEAD>> \o q \o <<FALLBACK_CONTEXT_TAIL>>
    ELSE <<FALLBACK_MENU_HEAD>> \o q \o <<FALLBACK_MENU_TAIL>>

(***************************************************************************)
(* The upstream (Runner.run) as generate_answer sees it: it returns a      *)
(* result whose final_output is a string, or a result whose final_output   *)
(* is not a string, or it raises.                                          *)
(***************************************************************************)
OutTokens == {" ", "ok"}

\* The texts the upstream may produce.
OutTexts == UNION {[1..n -> OutTokens] : n \in 0..MaxOut}

\* network/transport error, rate limit, timeout: all subclasses of Exception.
UpstreamErrors == {"APIConnectionError", "RateLimitError", "APITimeoutError"}

\* Mutant: lstrip() in place of strip().
post_process_LStrip(text) == LStrip(text)

\* `result.final_output.strip()` and `return answer`
post_process(text) == Strip(text)

\* Mutant: the handler logs and re-raises.
except_Exception_Reraise(e, q, ctx) ==
    [pc |-> "Failed", outcome |-> "raised", result |-> <<>>, raised |-> e]

\* Mutant: the handler sends the request back to the upstream call.
except_Exception_Retry(e, q, ctx) ==
    [pc |-> "PromptBuilt", outcome |-> "pending", result |-> <<>>,
     raised |-> "None"]

\* The `except Exception` clause of generate_answer: what the request does
\* with the exception e caught in the try block.
except_Exception(e, q, ctx) ==
    [pc |-> "FallbackProduced", outcome |-> "returned",
     result |-> _get_fallback_response(q, ctx), raised |-> "None"]

(***************************************************************************)
(* generate_answer, one request.                                           *)
(***************************************************************************)
RequestStart(policies) ==
    /\ question \in Questions
    /\ retrieved_chunks \in ChunkLists
    /\ mode \in Modes
    /\ policy \in policies
    /\ pc = "Start"
    /\ context_text = <<>>
    /\ user_message = <<>>
    /\ sent = <<>>
    /\ invocations = 0
    /\ final_output = <<>>
    /\ exc = "None"
    /\ outcome = "pending"
    /\ result = <<>>
    /\ raised = "None"

\* context_text = self._build_context(retrieved_chunks or [])
AssembleContext ==
    /\ pc = "Start"
    /\ context_text' = _build_context(retrieved_chunks)
    /\ pc' = "ContextAssembled"
    /\ UNCHANGED <<question, retrieved_chunks, mode, policy, user_message,
                   sent, invocations, final_output, exc, outcome, result,
                   raised, svcvars,
                   concvars>>

\* if context_text: user_message = ... else: user_message = ...
BuildPrompt ==
    /\ pc = "ContextAssembled"
    /\ user_message' = build_user_message(question, context_text, mode)
    /\ pc' = "PromptBuilt"
    /\ UNCHANGED <<question, retrieved_chunks, mode, policy, context_text,
                   sent, invocations, final_output, exc, outcome, result,
                   raised, svcvars,
                   concvars>>

\* try: result = Runner.run(starting_agent=self.agent, input=user_message, ...)
Invoke ==
    /\ pc = "PromptBuilt"
    /\ sent' = <<[system |-> _create_agent.instructions,
                  input |-> user_message]>>
    /\ invocations' = invocations + 1
    /\ pc' = "Invoking"
    /\ UNCHANGED <<question, retrieved_chunks, mode, policy, context_text,
                   user_message, final_output, exc, outcome, result, raised,
                   svcvars,
                   concvars>>

\* The upstream replied with text: answer = result.final_output.strip();
\* return answer
UpstreamReplies(text) ==
    /\ pc = "Invoking"
    /\ final_output' = text
    /\ result' = post_process(text)
    /\ outcome' = "returned"
    /\ pc' = "Succeeded"
    /\ UNCHANGED <<question, retrieved_chunks, mode, policy, context_text,
                   user_message, sent, invocations, exc, raised, svcvars,
                   concvars>>

\* The upstream replied with something that has no text: .strip() raises
\* AttributeError inside the try block.
UpstreamMalformed ==
    /\ pc = "Invoking"
    /\ exc' = "AttributeError"
    /\ pc' = "Failed"
    /\ UNCHANGED <<question, retrieved_chunks, mode, policy, context_text,
                   user_message, sent, invocations, final_output, outcome,
                   result, raised, svcvars,
                   concvars>>

\* Runner.run raised e inside the try block.
UpstreamRaises(e) ==
    /\ pc = "Invoking"
    /\ exc' = e
    /\ pc' = "Failed"
    /\ UNCHANGED <<question, retrieved_chunks, mode, policy, context_text,
                   user_message, sent, invocations, final_output, outcome,
                   result, raised, svcvars,
                   concvars>>

\* What a failure handler decided becomes the request's state.
Handled(h) ==
    /\ pc' = h.pc
    /\ outcome' = h.outcome
    /\ result' = h.result
    /\ raised' = h.raised
    /\ UNCHANGED <<question, retrieved_chunks, mode, policy, context_text,
                   user_message, sent, invocations, final_output, exc,
                   svcvars,
                   concvars>>

\* except Exception as e: return self._get_fallback_response(question, context_text)
HandleFailure ==
    /\ pc = "Failed"
    /\ outcome = "pending"
    /\ Handled(except_Exception(exc, question, context_text))

\* No generate_answer requests are running side by side.
NoConcurrentRequests == requests = <<>>

SingletonIdle ==
    /\ _service_instance = <<>>
    /\ constructed = <<>>
    /\ tpc = [t \in 1..NumThreads |-> "idle"]
    /\ targ = [t \in 1..NumThreads |-> "None"]
    /\ tnew = [t \in 1..NumThreads |-> <<>>]
    /\ tret = [t \in 1..NumThreads |-> <<>>]
    /\ tcalls = [t \in 1..NumThreads |-> 0]

Init ==
    RequestStart({"permissive"}) /\ SingletonIdle /\ NoConcurrentRequests

Next ==
    \/ AssembleContext
    \/ BuildPrompt
    \/ Invoke
    \/ \E text \in OutTexts : UpstreamReplies(text)
    \/ UpstreamMalformed
    \/ \E e \in UpstreamErrors : UpstreamRaises(e)
    \/ HandleFailure

Spec == Init /\ [][Next]_vars

(***************************************************************************)
(* The strict-grounding provider.  Its failure path is described in the    *)
(* design (sections 4.4 and 7): an upstream failure is an operation        *)
(* failure, handed to the caller as it is.                                 *)
(***************************************************************************)
\* Mutant: the strict provider answers with the canned text.
strict_on_failure_Swallow(e, q, ctx) ==
    [pc |-> "FallbackProduced", outcome |-> "returned",
     result |-> _get_fallback_response(q, ctx), raised |-> "None"]

strict_on_failure(e, q, ctx) ==
    [pc |-> "Failed", outcome |-> "raised", result |-> <<>>, raised |-> e]

PropagateFailure ==
    /\ pc = "Failed"
    /\ outcome = "pending"
    /\ Handled(strict_on_failure(exc, question, context_text))

InitStrict ==
    RequestStart({"strict"}) /\ SingletonIdle /\ NoConcurrentRequests

NextStrict ==
    \/ AssembleContext
    \/ BuildPrompt
    \/ Invoke
    \/ \E text \in OutTexts : UpstreamReplies(text)
    \/ UpstreamMalformed
    \/ \E e \in UpstreamErrors : UpstreamRaises(e)
    \/ PropagateFailure

SpecStrict == InitStrict /\ [][NextStrict]_vars

(***************************************************************************)
(* OpenRouterService.__init__ and get_service, called from several         *)
(* threads.  A thread may be preempted between the test of the global,     *)
(* the construction and the store to the global.                           *)
(***************************************************************************)
Threads == 1..NumThreads

ApiKeyArgs == {"None", "sk-arg"}
OPENROUTER_API_KEY == "sk-env"
DEFAULT_MODEL == "google-gemini-2.5-flash"
DEFAULT_TEMPERATURE == "0.3"
DEFAULT_MAX_TOKENS == 800

\* OpenRouterService(api_key=api_key): the n-th object built by the process.
OpenRouterService(n, api_key) ==
    [id |-> n,
     api_key |-> IF api_key = "None" THEN OPENROUTER_API_KEY ELSE api_key,
     model |-> DEFAULT_MODEL,
     temperature |-> DEFAULT_TEMPERATURE,
     max_tokens |-> DEFAULT_MAX_TOKENS,
     agent |-> _create_agent]

\* A thread enters get_service(api_key).
Call(t, k) ==
    /\ tpc[t] = "idle"
    /\ tcalls[t] < MaxCalls
    /\ targ' = [targ EXCEPT ![t] = k]
    /\ tpc' = [tpc EXCEPT ![t] = "check"]
    /\ UNCHANGED <<_service_instance, constructed, tnew, tret, tcalls, reqvars,
                   concvars>>

\* if _service_instance is None:
Check(t) ==
    /\ tpc[t] = "check"
    /\ tpc' = [tpc EXCEPT ![t] =
                 IF _service_instance = <<>> THEN "construct" ELSE "return"]
    /\ UNCHANGED <<_service_instance, constructed, targ, tnew, tret, tcalls,
                   reqvars,
                   concvars>>

\* OpenRouterService(api_key=api_key), the right-hand side of the assignment
Construct(t) ==
    /\ tpc[t] = "construct"
    /\ LET obj == OpenRouterService(Len(constructed) + 1, targ[t])
       IN /\ constructed' = Append(constructed, obj)
          /\ tnew' = [tnew EXCEPT ![t] = <<obj>>]
    /\ tpc' = [tpc EXCEPT ![t] = "assign"]
    /\ UNCHANGED <<_service_instance, targ, tret, tcalls, reqvars,
                   concvars>>

\* _service_instance = <the new object>
Assign(t) ==
    /\ tpc[t] = "assign"
    /\ _service_instance' = tnew[t]
    /\ tnew' = [tnew EXCEPT ![t] = <<>>]
    /\ tpc' = [tpc EXCEPT ![t] = "return"]
    /\ UNCHANGED <<constructed, targ, tret, tcalls, reqvars,
                   concvars>>

\* return _service_instance
Return(t) ==
    /\ tpc[t] = "return"
    /\ tret' = [tret EXCEPT ![t] = _service_instance]
    /\ tcalls' = [tcalls EXCEPT ![t] = @ + 1]
    /\ tpc' = [tpc EXCEPT ![t] = "idle"]
    /\ UNCHANGED <<_service_instance, constructed, targ, tnew, reqvars,
                   concvars>>

\* No request is in flight while the singleton is being created.
RequestIdle ==
    /\ question = <<>>
    /\ retrieved_chunks = <<>>
    /\ mode = "book-wide"
    /\ policy = "permissive"
    /\ pc = "Start"
    /\ context_text = <<>>
    /\ user_message = <<>>
    /\ sent = <<>>
    /\ invocations = 0
    /\ final_output = <<>>
    /\ exc = "None"
    /\ outcome = "pending"
    /\ result = <<>>
    /\ raised = "None"

InitSingleton ==
    RequestIdle /\ SingletonIdle /\ NoConcurrentRequests

NextSingleton ==
    \/ \E t \in Threads, k \in ApiKeyArgs : Call(t, k)
    \/ \E t \in Threads : Check(t)
    \/ \E t \in Threads : Construct(t)
    \/ \E t \in Threads : Assign(t)
    \/ \E t \in Threads : Return(t)

SpecSingleton == InitSingleton /\ [][NextSingleton]_vars

(***************************************************************************)
(* Several generate_answer requests running side by side on the instance   *)
(* that get_service hands out.  Each request has its own arguments and     *)
(* locals; `self` is the one object in _service_instance.                  *)
(***************************************************************************)
Requests == 1..NumRequests

ConcurrentChunkLists ==
    {<<>>,
     <<[chapter_id |-> 3, section_title |-> "ROS 2 Architecture",
        full_text |-> "ROS 2 is built on DDS..."]>>}

ConcurrentModes == {"book-wide", "chapter-aware"}

ConcurrentReply == <<" ", "ok", " ">>

\* A request that has been called with (q, chunks, m) and has not yet run.
NewRequest(q, chunks, m) ==
    [question |-> q, retrieved_chunks |-> chunks, mode |-> m, pc |-> "Start",
     context_text |-> <<>>, user_message |-> <<>>, sent |-> <<>>,
     final_output |-> <<>>, exc |-> "None", outcome |-> "pending",
     result |-> <<>>, raised |-> "None"]

\* Mutant: the request lowers the temperature kept on the instance.
self_after_generate_answer_Tuned(self) == [self EXCEPT !.temperature = "0.0"]

\* The instance after a step of generate_answer: the method reads
\* self.agent, self.client, self.max_tokens and self.temperature and assigns
\* no attribute of self.
self_after_generate_answer(self) == self

\* What a step of request r leaves behind: its own record, and self.
StepOf(r, rec) ==
    /\ requests' = [requests EXCEPT ![r] = rec]
    /\ _service_instance' =
          <<self_after_generate_answer(_service_instance[1])>>
    /\ UNCHANGED <<constructed, tpc, targ, tnew, tret, tcalls, reqvars>>

CAssembleContext(r) ==
    LET q == requests[r]
    IN /\ q.pc = "Start"
       /\ StepOf(r, [q EXCEPT
                        !.context_text = _build_context(q.retrieved_chunks),
                        !.pc = "ContextAssembled"])

CBuildPrompt(r) ==
    LET q == requests[r]
    IN /\ q.pc = "ContextAssembled"
       /\ StepOf(r, [q EXCEPT
                        !.user_message =
                            build_user_message(q.question, q.context_text,
                                               q.mode),
                        !.pc = "PromptBuilt"])

CInvoke(r) ==
    LET q == requests[r]
        self == _service_instance[1]
    IN /\ q.pc = "PromptBuilt"
       /\ StepOf(r, [q EXCEPT
                        !.sent = <<[system |-> self.agent.instructions,
                                    input |-> q.user_message,
                                    max_tokens |-> self.max_tokens,
                                    temperature |-> self.temperature]>>,
                        !.pc = "Invoking"])

CUpstreamReplies(r, text) ==
    LET q == requests[r]
    IN /\ q.pc = "Invoking"
       /\ StepOf(r, [q EXCEPT !.final_output = text,
                              !.result = post_process(text),
                              !.outcome = "returned",
                              !.pc = "Succeeded"])

CUpstreamFails(r, e) ==
    LET q == requests[r]
    IN /\ q.pc = "Invoking"
       /\ StepOf(r, [q EXCEPT !.exc = e, !.pc = "Failed"])

CHandleFailure(r) ==
    LET q == requests[r]
        h == except_Exception(q.exc, q.question, q.context_text)
    IN /\ q.pc = "Failed"
       /\ q.outcome = "pending"
       /\ StepOf(r, [q EXCEPT !.pc = h.pc, !.outcome = h.outcome,
                              !.result = h.result, !.raised = h.raised])

\* get_service has built the instance; the requests have been called.
InitConcurrent ==
    /\ RequestIdle
    /\ \E k \in ApiKeyArgs :
          /\ _service_instance = <<OpenRouterService(1, k)>>
          /\ constructed = <<OpenRouterService(1, k)>>
    /\ tpc = [t \in 1..NumThreads |-> "idle"]
    /\ targ = [t \in 1..NumThreads |-> "None"]
    /\ tnew = [t \in 1..NumThreads |-> <<>>]
    /\ tret = [t \in 1..NumThreads |-> <<>>]
    /\ tcalls = [t \in 1..NumThreads |-> 0]
    /\ requests \in
          [Requests -> {NewRequest(q, chunks, m) :
                           q \in Questions,
                           chunks \in ConcurrentChunkLists,
                           m \in ConcurrentModes}]

NextConcurrent ==
    \/ \E r \in Requests : CAssembleContext(r)
    \/ \E r \in Requests : CBuildPrompt(r)
    \/ \E r \in Requests : CInvoke(r)
    \/ \E r \in Requests : CUpstreamReplies(r, ConcurrentReply)
    \/ \E r \in Requests, e \in {"AttributeError", "RateLimitError"} :
          CUpstreamFails(r, e)
    \/ \E r \in Requests : CHandleFailure(r)

SpecConcurrent == InitConcurrent /\ [][NextConcurrent]_vars

(***************************************************************************)
(* Claims.                                                                 *)
(***************************************************************************)

PhaseSteps ==
    {<<"Start", "ContextAssembled">>, <<"ContextAssembled", "PromptBuilt">>,
     <<"PromptBuilt", "Invoking">>, <<"Invoking", "Succeeded">>,
     <<"Invoking", "Failed">>, <<"Failed", "FallbackProduced">>}

C3_PhaseOrder ==
    [][/\ <<pc, pc'>> \in PhaseSteps
       /\ pc \notin {"Succeeded", "FallbackProduced"}
       /\ invocations' <= 1
       /\ (invocations' # invocations) =>
             (pc' = "Invoking" /\ invocations' = invocations + 1)]_vars

C3_Witness ==
    /\ pc = "FallbackProduced"
    /\ invocations = 1
    /\ exc = "APIConnectionError"

\* C4: however concurrent first calls of get_service interleave, at most
\* one OpenRouterService is constructed and all callers receive the same
\* instance.
C4_SingleConstruction ==
    /\ Len(constructed) <= 1
    /\ \A t1, t2 \in Threads :
          (tret[t1] # <<>> /\ tret[t2] # <<>>) => tret[t1] = tret[t2]

\* C5: for a fragment list of length N > 0 the serialized context holds
\* exactly N labelled blocks; the k-th label carries the number k and is
\* followed by the chapter id, section title and full text of the k-th
\* fragment; consecutive blocks are joined by the separator and nothing
\* else is in the output.  For N = 0 the output is the empty string.
LabelPositions(out) == {p \in 1..Len(out) : out[p] = "[Chunk "}

SeparatorPositions(out) == {p \in 1..Len(out) : <<out[p]>> = SEPARATOR}

BlockLength(chunk) == IF "full_text" \in DOMAIN chunk THEN 9 ELSE 8

BlockCarries(out, p, k, chunk) ==
    /\ p + BlockLength(chunk) - 1 <= Len(out)
    /\ out[p + 1] = Digit[k + 1]
    /\ out[p + 2] = "] Chapter "
    /\ ("chapter_id" \in DOMAIN chunk =>
           out[p + 3] = Digit[chunk["chapter_id"] + 1])
    /\ out[p + 4] = ", Section: "
    /\ ("section_title" \in DOMAIN chunk =>
           out[p + 5] = chunk["section_title"])
    /\ out[p + 6] = "\n"
    /\ ("full_text" \in DOMAIN chunk =>
           out[p + 7] = chunk["full_text"])
    /\ out[p + BlockLength(chunk) - 1] = "\n"
    /\ IF k = 1 THEN p = 1 ELSE <<out[p - 1]>> = SEPARATOR

C5_ContextBlocks ==
    pc # "Start" =>
       LET out == context_text
           N == Len(retrieved_chunks)
           labels == LabelPositions(out)
       IN IF N = 0 THEN out = <<>>
          ELSE /\ Cardinality(labels) = N
               /\ Cardinality(SeparatorPositions(out)) = N - 1
               /\ \A p \in labels :
                     LET k == Cardinality({q \in labels : q <= p})
                     IN BlockCarries(out, p, k, retrieved_chunks[k])
               /\ LET sizes == [k \in 1..N |->
                                   BlockLength(retrieved_chunks[k])]
                      total[k \in 0..N] ==
                          IF k = 0 THEN 0 ELSE total[k - 1] + sizes[k]
                  IN Len(out) = total[N] + (N - 1)

C5_Witness ==
    /\ pc = "ContextAssembled"
    /\ Len(retrieved_chunks) = 2
    /\ retrieved_chunks[1] = retrieved_chunks[2]
    /\ DOMAIN retrieved_chunks[1] =
          {"chapter_id", "section_title", "full_text"}
    /\ Cardinality(LabelPositions(context_text)) = 2

\* C6: in chapter-aware mode with a non-empty fragment list, the
\* instruction text handed to the upstream (the agent's instructions and
\* the task instructions that follow the question and the context in the
\* user message) refers to the chapter id of the first fragment.  Stated
\* for a first fragment that has a chapter id.
InstructionTokens(call) ==
    Range(call.system) \cup
    Range(SubSeq(call.input,
                 1 + Len(question)
                   + (IF context_text # <<>> THEN 1 + Len(context_text)
                      ELSE 0) + 1,
                 Len(call.input)))

C6_ChapterAwarePrioritizesFirst ==
    (/\ mode = "chapter-aware"
     /\ retrieved_chunks # <<>>
     /\ "chapter_id" \in DOMAIN retrieved_chunks[1]
     /\ sent # <<>>) =>
       chapter_id_of(retrieved_chunks[1]) \in InstructionTokens(sent[1])

\* C7: a chapter-aware request with no fragments hands the upstream the
\* same instructions and the same user message as the book-wide request
\* for the same question; the message names no chapter, and nothing is
\* raised.
C7_ChapterAwareEmptyIsBookWide ==
    (mode = "chapter-aware" /\ retrieved_chunks = <<>> /\ sent # <<>>) =>
       /\ sent[1].input =
             build_user_message(question, _build_context(<<>>), "book-wide")
       /\ sent[1].system = AgentInstructions
       /\ \A tok \in Range(sent[1].input) \ Range(question) :
             tok \notin {"[Chunk ", "] Chapter "}
       /\ Len(sent[1].input) = Len(question) + 2
       /\ raised = "None"

C7_Witness ==
    /\ mode = "chapter-aware"
    /\ retrieved_chunks = <<>>
    /\ pc = "Invoking"
    /\ sent # <<>>

\* C8: when the upstream replies with text T the request returns T without
\* its leading and trailing whitespace and otherwise untouched; it is not
\* the fallback text.
IsTrimOf(r, t) ==
    /\ \E a, b \in 0..Len(t) :
          /\ a + b <= Len(t)
          /\ r = SubSeq(t, a + 1, Len(t) - b)
          /\ \A i \in 1..a : t[i] \in Whitespace
          /\ \A i \in (Len(t) - b + 1)..Len(t) : t[i] \in Whitespace
    /\ r # <<>> => (r[1] \notin Whitespace /\ r[Len(r)] \notin Whitespace)

C8_SuccessIsTrimmedText ==
    pc = "Succeeded" =>
       /\ outcome = "returned"
       /\ IsTrimOf(result, final_output)
       /\ result # _get_fallback_response(question, context_text)
       /\ exc = "None"
       /\ raised = "None"

C8_Witness ==
    /\ pc = "Succeeded"
    /\ final_output = <<" ", "ok", " ">>
    /\ result = <<"ok">>

\* C9: whatever the mode, the question and the fragment list, nothing is
\* raised before the upstream call, the next phase is always enabled, and
\* the upstream is handed non-empty instructions and a non-empty user
\* message.
C9_PromptNeverEmpty ==
    /\ pc \in {"Start", "ContextAssembled", "PromptBuilt", "Invoking"} =>
          (outcome = "pending" /\ raised = "None")
    /\ pc \in {"Start", "ContextAssembled", "PromptBuilt"} =>
          ENABLED (AssembleContext \/ BuildPrompt \/ Invoke)
    /\ pc \in {"PromptBuilt", "Invoking"} => user_message # <<>>
    /\ sent # <<>> => (sent[1].system # <<>> /\ sent[1].input # <<>>)

C9_Witness ==
    /\ pc = "Invoking"
    /\ question = <<>>
    /\ retrieved_chunks = <<>>
    /\ sent[1].input # <<>>

\* C10: the fallback text is chosen by the emptiness of the serialized
\* context alone, which is the emptiness of the fragment list: the text
\* that points to the textbook sections when there is context, the menu of
\* topics when there is none; each quotes the question, and nothing is
\* raised.
C10_FallbackSelectedByContext ==
    pc = "FallbackProduced" =>
       /\ (context_text = <<>>) <=> (retrieved_chunks = <<>>)
       /\ (FALLBACK_CONTEXT_TAIL \in Range(result)) <=>
             (retrieved_chunks # <<>>)
       /\ (FALLBACK_MENU_TAIL \in Range(result)) <=>
             (retrieved_chunks = <<>>)
       /\ SubSeq(result, 2, Len(result) - 1) = question
       /\ result[1] = (IF retrieved_chunks # <<>>
                       THEN FALLBACK_CONTEXT_HEAD ELSE FALLBACK_MENU_HEAD)
       /\ raised = "None"

C10_Witness ==
    /\ pc = "FallbackProduced"
    /\ retrieved_chunks = <<>>
    /\ question = <<>>
    /\ FALLBACK_MENU_TAIL \in Range(result)

\* C12: context assembly goes through for fragments without metadata: the
\* block of the k-th fragment is emitted at the k-th place, with
\* "Unknown Section" where the fragment has no section title and "?" where
\* it has no chapter id; nothing is raised.
C12_MissingMetadataDefaults ==
    /\ pc = "Start" => ENABLED AssembleContext
    /\ pc # "Start" =>
          LET out == context_text
              labels == LabelPositions(out)
          IN /\ Cardinality(labels) = Len(retrieved_chunks)
             /\ \A p \in labels :
                   LET k == Cardinality({q \in labels : q <= p})
                       chunk == retrieved_chunks[k]
                   IN /\ out[p + 1] = Digit[k + 1]
                      /\ ("chapter_id" \notin DOMAIN chunk =>
                             out[p + 3] = "?")
                      /\ ("section_title" \notin DOMAIN chunk =>
                             out[p + 5] = "Unknown Section")
    /\ pc = "ContextAssembled" => (outcome = "pending" /\ raised = "None")

C12_Witness ==
    /\ pc = "ContextAssembled"
    /\ Len(retrieved_chunks) = 2
    /\ DOMAIN retrieved_chunks[1] =
          {"chapter_id", "section_title", "full_text"}
    /\ DOMAIN retrieved_chunks[2] = {"full_text"}
    /\ "Unknown Section" \in Range(context_text)
    /\ "?" \in Range(context_text)

\* C13: once the singleton exists, no step of any get_service call replaces
\* or alters it, whatever api_key the call was given, and every call that
\* returns from then on returns that instance.
C13_SingletonKeptOnceSet ==
    [][_service_instance # <<>> =>
          /\ _service_instance' = _service_instance
          /\ \A t \in Threads :
                tret'[t] # tret[t] => tret'[t] = _service_instance]_vars

\* C11: however concurrent requests interleave, and whether they succeed
\* or fall back, the shared instance keeps the configuration it was built
\* with (api key, model, temperature, token cap, agent), and what each
\* request assembles, sends and returns is determined by its own arguments
\* and its own upstream reply.
C11_InstanceReadOnly ==
    /\ _service_instance = <<constructed[1]>>
    /\ Len(constructed) = 1
    /\ \A r \in Requests :
          LET q == requests[r]
              ctx == _build_context(q.retrieved_chunks)
          IN /\ q.pc # "Start" => q.context_text = ctx
             /\ q.sent # <<>> =>
                   q.sent[1] =
                      [system |-> constructed[1].agent.instructions,
                       input |-> build_user_message(q.question, ctx, q.mode),
                       max_tokens |-> constructed[1].max_tokens,
                       temperature |-> constructed[1].temperature]
             /\ q.pc = "Succeeded" =>
                   q.result = post_process(q.final_output)
             /\ q.pc = "FallbackProduced" =>
                   q.result = _get_fallback_response(q.question, ctx)
             /\ q.raised = "None"

C11_Witness ==
    /\ requests # <<>>
    /\ requests[1].pc = "Succeeded"
    /\ requests[2].pc = "FallbackProduced"
    /\ requests[1].retrieved_chunks # requests[2].retrieved_chunks
    /\ _service_instance = <<constructed[1]>>

=============================================================================
